---------------------------- MODULE Spec2Model ----------------------------
(***************************************************************************)
(* uvee: decoders for the skinned-mesh format (.skn), the ASCII and the    *)
(* binary static-object formats (.sco, .scb), the UV wireframe projection  *)
(* and the batch driver of src/uvee.py.                                    *)
(*                                                                         *)
(* A binary file is a sequence of bytes (0..255) and the cursor `pos` is   *)
(* the stream position of BinaryStream, counted in bytes from 0.  Struct   *)
(* formats 'H', 'I', 'f' are native; the model takes the little-endian     *)
(* layout of the platforms the files come from.  A 32-bit float is         *)
(* represented by its IEEE-754 binary32 bit pattern, read as an unsigned   *)
(* integer: 0.0 = 0, 0.5 = 1056964608, 1.0 = 1065353216, 2.0 = 1073741824. *)
(* A text file is a sequence of lines, the strings read_sco holds after    *)
(* the last character of each line is dropped.  A line is the sequence of  *)
(* its pieces: its words, and " " for each run of blanks or tabs before,   *)
(* between and after them; two lines are the same string when they are     *)
(* the same sequence of pieces.  str.split() keeps the words (it splits    *)
(* on blanks and tabs alike, so the '\t' replacement of the Faces block    *)
(* changes no word).                                                       *)
(* A decoded string is the sequence of its character codes, and so is a    *)
(* path.  The file system is the set of its directories and the function  *)
(* from its regular files to their content, a directory or a file being    *)
(* the sequence of its components from the root; os.path is posixpath.     *)
(* Python indices are kept 0-based: lines[k] of the source is              *)
(* lines[k + 1] here.                                                      *)
(***************************************************************************)
EXTENDS Integers, Sequences, FiniteSets, TLC

VARIABLES
    argv,          \* the paths handed to process(), in order
    disk,          \* the file system: its directories, those among them in
                   \* which nothing can be created, its files and what
                   \* each holds
    argi,          \* 1-based position of the driver's for loop in argv
    out,           \* what the driver printed: <<position in argv, message>>
    pc,            \* where the program is
    file,          \* bytes of the binary file being decoded
    lines,         \* lines of the text file being decoded
    pos,           \* BinaryStream position
    major, minor, vertex_type, index_count, vertex_count, face_count,
    i,             \* loop variable of the decoder (-1: not bound yet)
    index,         \* read_sco: line index of the main loop
    face_block_start, \* read_scb: position of the first face record
    submeshes, indices, vertices, uvs, material,
    sub,           \* process_skn: 1-based position in skn.submeshes
    tri,           \* one logical triangle: <<u0, v0, u1, v1, u2, v2>>
    uvSco, uvScb   \* the UVs each static-object decoder yields for tri

vars == <<argv, disk, argi, out, pc, file, lines, pos, major, minor,
          vertex_type, index_count, vertex_count, face_count, i, index,
          face_block_start, submeshes, indices, vertices, uvs, material,
          sub, tri, uvSco, uvScb>>

(***************************************************************************)
(* Bounds of the enumerated inputs.                                        *)
(***************************************************************************)
MaxPaths == 3
MaxFaces == 2
MaxBlocks == 2

(***************************************************************************)
(* Program constants.                                                      *)
(***************************************************************************)
SknMagic == 1122867

Min(a, b) == IF a < b THEN a ELSE b
Max(a, b) == IF a > b THEN a ELSE b


(***************************************************************************)
(* BinaryStream: the primitive reads.  stream.read(n) returns the bytes    *)
(* that remain, at most n, and Struct.unpack raises unless it got all n;   *)
(* stream.seek(n, 1) moves the position whatever the length of the file.   *)
(***************************************************************************)
\* Struct.unpack over stream.read(n): succeeds iff n bytes remain at p
Has(f, p, n) == p + n <= Len(f)

\* stream.read(n) at position p
read_bytes(f, p, n) ==
    IF p >= Len(f) THEN << >> ELSE SubSeq(f, p + 1, Min(p + n, Len(f)))

\* position after pad(n): seek(n, 1)
pad(p, n) == p + n

read_uint16(f, p) == f[p + 1] + 256 * f[p + 2]

read_uint32(f, p) ==
    f[p + 1] + 256 * f[p + 2] + 65536 * f[p + 3] + 16777216 * f[p + 4]

\* a float is kept as its binary32 bit pattern
read_float(f, p) == read_uint32(f, p)

read_vec2(f, p) == <<read_float(f, p), read_float(f, p + 4)>>

read_vec3(f, p) ==
    <<read_float(f, p), read_float(f, p + 4), read_float(f, p + 8)>>

\* bytes.decode('ascii') raises on a byte above 127
IsAscii(bs) == \A k \in 1..Len(bs) : bs[k] < 128

NonZero(b) == b # 0

\* read_padded_ascii: the zero bytes of the window are dropped
read_padded_ascii(f, p, n) == SelectSeq(read_bytes(f, p, n), NonZero)

(***************************************************************************)
(* BinaryStream: the writes, used to lay out the input files.              *)
(***************************************************************************)
write_uint16(n) == <<n % 256, n \div 256>>

write_uint32(n) ==
    <<n % 256, (n \div 256) % 256, (n \div 65536) % 256, n \div 16777216>>

write_float(n) == write_uint32(n)

Zeros(n) == [k \in 1..n |-> 0]

write_padded_ascii(n, value) == value \o Zeros(n - Len(value))

RECURSIVE Concat(_)
Concat(ss) == IF ss = << >> THEN << >> ELSE Head(ss) \o Concat(Tail(ss))

\* the sequences over S of length at most n
SeqUpTo(S, n) == UNION {[1..k -> S] : k \in 0..n}

\* the file without its last `cut` bytes
Truncate(f, cut) == SubSeq(f, 1, Max(Len(f) - cut, 0))

(***************************************************************************)
(* Text tokens: int() and float() of the tokens the input files use.       *)
(* Every numeral of the vocabulary is exactly representable in binary32,   *)
(* so the value float() returns is identified by the same bit pattern as   *)
(* the value Struct('f') unpacks.                                          *)
(***************************************************************************)
IntTokens == {"0", "1", "2", "3", "4", "5"}

\* int(t) raises ValueError unless IsInt(t)
IsInt(t) == t \in IntTokens

int(t) ==
    CASE t = "0" -> 0 [] t = "1" -> 1 [] t = "2" -> 2
      [] t = "3" -> 3 [] t = "4" -> 4 [] t = "5" -> 5

\* float(t) raises ValueError unless IsFloat(t)
IsFloat(t) == t \in IntTokens \cup {"0.5"}

float(t) ==
    CASE t = "0" -> 0
      [] t = "0.5" -> 1056964608
      [] t = "1" -> 1065353216
      [] t = "2" -> 1073741824
      [] t = "3" -> 1077936128
      [] t = "4" -> 1082130432
      [] t = "5" -> 1084227584

\* the numeral a float value is written as in a text file
FloatToken(v) ==
    CASE v = 0 -> "0"
      [] v = 1056964608 -> "0.5"
      [] v = 1065353216 -> "1"
      [] v = 1073741824 -> "2"

\* the float values of the enumerated inputs: 0.0, 0.5, 1.0, 2.0
FloatVals == {0, 1056964608, 1065353216, 1073741824}

\* list[a:b] of Python for 0 <= a, 0 <= b
Slice(s, a, b) ==
    IF a >= Min(b, Len(s)) THEN << >> ELSE SubSeq(s, a + 1, Min(b, Len(s)))

(***************************************************************************)
(* The input files.  A .skn file is laid out from a description            *)
(*   [major, minor, subs, ic, nv, vt, faces, cut]:                         *)
(* the submesh table, the declared index and vertex counts, the vertex     *)
(* type, the faces, nv vertices of zero bytes, and `cut` bytes missing at  *)
(* the end of the file.                                                    *)
(***************************************************************************)
SknSubmeshBytes(m) ==
    write_padded_ascii(64, m.name) \o write_uint32(m.vertex_start)
        \o write_uint32(m.vertex_count) \o write_uint32(m.index_start)
        \o write_uint32(m.index_count)

SknFaceBytes(face) ==
    write_uint16(face[1]) \o write_uint16(face[2]) \o write_uint16(face[3])

SknVertexBytes(vt) ==
    Zeros(52 + (IF vt >= 1 THEN 4 ELSE 0) + (IF vt = 2 THEN 16 ELSE 0))

SknBytes(d) ==
    LET head == write_uint32(SknMagic) \o write_uint16(d.major)
                    \o write_uint16(d.minor)
        counts == write_uint32(d.ic) \o write_uint32(d.nv)
        table == write_uint32(Len(d.subs))
                    \o Concat([k \in 1..Len(d.subs) |-> SknSubmeshBytes(d.subs[k])])
        info == IF d.major = 0 THEN counts
                ELSE IF d.major = 4
                     THEN table \o Zeros(4) \o counts \o Zeros(4)
                              \o write_uint32(d.vt) \o Zeros(24) \o Zeros(16)
                     ELSE table \o counts
        body == Concat([k \in 1..Len(d.faces) |-> SknFaceBytes(d.faces[k])])
                    \o Concat([k \in 1..d.nv |-> SknVertexBytes(d.vt)])
    IN  Truncate(head \o info \o body, d.cut)

Submesh(name, vs, vc, is, ic) ==
    [name |-> name, vertex_start |-> vs, vertex_count |-> vc,
     index_start |-> is, index_count |-> ic]

\* the faces a .skn input is made of: two of them have a repeated index
SknFaceSet == {<<0, 1, 2>>, <<1, 1, 2>>, <<0, 2, 2>>, <<3, 4, 5>>}

\* the submesh tables tried for a mesh of nf faces and nv vertices: none, one
\* submesh spanning the mesh, two submeshes of one face and three vertices,
\* named "a", "b", "x/y", "../uvee_f/c", ""
SknTables(nf, nv) ==
    { << >>,
      <<Submesh(<<97>>, 0, nv, 0, 3 * nf)>>,
      <<Submesh(<<46, 46, 47, 117, 118, 101, 101, 95, 102, 47, 99>>,
                0, nv, 0, 3 * nf)>>,
      <<Submesh(<< >>, 0, nv, 0, 3 * nf)>>,
      <<Submesh(<<97>>, 0, 3, 0, 3), Submesh(<<98>>, 3, 3, 3, 3)>>,
      <<Submesh(<<120, 47, 121>>, 0, 3, 0, 3), Submesh(<<98>>, 3, 3, 3, 3)>> }

\* the descriptions of the .skn inputs: version pairs inside and outside the
\* supported set, a declared index count that is or is not a multiple of 3,
\* a file that is whole or lacks its last 20 bytes
SknVersioned(v, fs, nv) ==
    { [major |-> v[1], minor |-> v[2], subs |-> t, ic |-> 3 * Len(fs) + x,
       nv |-> nv, vt |-> vt, faces |-> fs, cut |-> cut] :
        t \in (IF v[1] = 0 THEN {<< >>} ELSE SknTables(Len(fs), nv)),
        vt \in (IF v[1] = 4 THEN {0, 1, 2} ELSE {0}),
        x \in {0, 1}, cut \in {0, 20} }

SknInputs ==
    UNION { SknVersioned(v, fs, nv) :
                v \in ({0, 2, 4, 7} \X {0, 1}) \ {<<4, 0>>},
                fs \in SeqUpTo(SknFaceSet, MaxFaces), nv \in {0, 3, 6} }

SknCorpus == {SknBytes(d) : d \in SknInputs}

(***************************************************************************)
(* A .scb file is laid out from [major, minor, nv, vt, faces, cut]; a face *)
(* record is its 3 indices, its material name and its 6 floats, all U then *)
(* all V.                                                                  *)
(***************************************************************************)
ScbMagic == <<114, 51, 100, 50, 77, 101, 115, 104>>

ScbFaceBytes(r) ==
    write_uint32(r.face[1]) \o write_uint32(r.face[2]) \o write_uint32(r.face[3])
        \o write_padded_ascii(64, r.material)
        \o Concat([k \in 1..6 |-> write_float(r.uv[k])])

ScbBytes(d) ==
    LET head == ScbMagic \o write_uint16(d.major) \o write_uint16(d.minor)
                    \o Zeros(128)
        info == write_uint32(d.nv) \o write_uint32(Len(d.faces))
                    \o write_uint32(2) \o Zeros(24)
                    \o (IF d.major = 3 /\ d.minor = 2
                        THEN write_uint32(d.vt) ELSE << >>)
        body == Zeros(12 * d.nv)
                    \o (IF d.vt = 1 THEN Zeros(4 * d.nv) ELSE << >>)
                    \o Zeros(12)
                    \o Concat([k \in 1..Len(d.faces) |-> ScbFaceBytes(d.faces[k])])
    IN  Truncate(head \o info \o body, d.cut)

\* the face records a .scb input is made of: "mat" and "m2" are short names,
\* "abcdefghi" fills the first three words of the name window
ScbFaceSet ==
    { [face |-> <<0, 1, 2>>, material |-> <<109, 97, 116>>,
       uv |-> <<0, 1056964608, 1073741824, 0, 0, 1056964608>>],
      [face |-> <<2, 2, 5>>,
       material |-> <<97, 98, 99, 100, 101, 102, 103, 104, 105>>,
       uv |-> <<0, 1056964608, 1073741824, 0, 0, 1056964608>>],
      [face |-> <<5, 2, 5>>, material |-> <<109, 97, 116>>,
       uv |-> <<1065353216, 0, 0, 0, 1065353216, 0>>],
      [face |-> <<3, 4, 5>>, material |-> <<109, 50>>,
       uv |-> <<1065353216, 0, 0, 0, 1065353216, 0>>] }

ScbVersioned(v, fs, nv) ==
    { [major |-> v[1], minor |-> v[2], nv |-> nv, vt |-> vt, faces |-> fs,
       cut |-> cut] :
        vt \in (IF v[1] = 3 /\ v[2] = 2 THEN {0, 1} ELSE {0}),
        cut \in {0, 88} }

ScbInputs ==
    UNION { ScbVersioned(v, fs, nv) :
                v \in {2, 3, 7} \X {0, 1, 2},
                fs \in SeqUpTo(ScbFaceSet, MaxFaces), nv \in {0, 1, 3} }

ScbCorpus == {ScbBytes(d) : d \in ScbInputs}

(***************************************************************************)
(* A .sco file is its signature line followed by blocks.                   *)
(***************************************************************************)
ScoBlockSet ==
    { << << >> >>,
      << <<"CentralPoint=", "0", "0.5", "1">> >>,
      << <<"PivotPoint=", "0", "x">> >>,
      << <<"Name=", "obj">> >>,
      << <<"Verts=", "1">>, <<"0", "0.5", "1">> >>,
      << <<"Verts=", "0">> >>,
      << <<"Verts=", "2">>, <<"0", "0", "0">> >>,
      << <<"Faces=", "0">> >>,
      << <<"Faces=", "1">>,
         <<"3", "3", "4", "5", "m2", "1", "0", "0", "1", "0", "0">> >>,
      << <<"Faces=", "2">>,
         <<"3", "0", "1", "2", "mat", "0", "0", "0.5", "0", "2", "0.5">>,
         <<"3", "2", "2", "5">> >> }

\* the string of a line made of the given words: one blank between two words
Spaced(words) ==
    [k \in 1..(2 * Len(words) - 1) |->
        IF k % 2 = 1 THEN words[(k + 1) \div 2] ELSE " "]

\* the same string with blanks before its first and after its last word
Indented(words) ==
    IF words = << >> THEN <<" ">> ELSE <<" ">> \o Spaced(words) \o <<" ">>

ScoText(magic, blocks) ==
    <<magic>> \o [k \in 1..Len(Concat(blocks)) |-> Spaced(Concat(blocks)[k])]

ScoLines(blocks) == ScoText(<<"[ObjectBegin]">>, blocks)

\* the words of a well-formed file, with blanks around the words of each line
ScoIndented(blocks) ==
    <<Head(ScoLines(blocks))>>
        \o [k \in 1..Len(Concat(blocks)) |-> Indented(Concat(blocks)[k])]

\* the files tried: the signature line alone or with a blank before or after
\* it, another first line, no line at all
ScoCorpus ==
    { ScoLines(bs) : bs \in SeqUpTo(ScoBlockSet, MaxBlocks) }
        \cup { ScoIndented(bs) : bs \in SeqUpTo(ScoBlockSet, 1) }
        \cup { ScoText(m, <<b>>) :
                  m \in { <<" ", "[ObjectBegin]">>, <<"[ObjectBegin]", " ">>,
                          <<"[Object]">> },
                  b \in ScoBlockSet }
        \cup { << >> }

(***************************************************************************)
(* Paths and the file system.                                              *)
(***************************************************************************)
\* str.endswith
EndsWith(s, t) ==
    Len(s) >= Len(t) /\ SubSeq(s, Len(s) - Len(t) + 1, Len(s)) = t

\* str.replace: every occurrence of old, from the left
RECURSIVE Replace(_, _, _)
Replace(s, old, new) ==
    IF s = << >> THEN << >>
    ELSE IF Len(s) >= Len(old) /\ SubSeq(s, 1, Len(old)) = old
         THEN new \o Replace(SubSeq(s, Len(old) + 1, Len(s)), old, new)
         ELSE <<Head(s)>> \o Replace(Tail(s), old, new)

\* p.rfind('/') + 1
AfterSlash(p) ==
    CHOOSE n \in 0..Len(p) :
        /\ n > 0 => p[n] = 47
        /\ \A k \in (n + 1)..Len(p) : p[k] # 47

basename(p) == SubSeq(p, AfterSlash(p) + 1, Len(p))

\* head.rstrip('/')
rstrip(head) ==
    SubSeq(head, 1, CHOOSE n \in 0..Len(head) :
                        /\ n > 0 => head[n] # 47
                        /\ \A k \in (n + 1)..Len(head) : head[k] = 47)

dirname(p) ==
    LET head == SubSeq(p, 1, AfterSlash(p)) IN
        IF \A k \in 1..Len(head) : head[k] = 47 THEN head ELSE rstrip(head)

\* the extensions process() looks for, '.txt', '.png' and 'uvee_'
SknExt == <<46, 115, 107, 110>>
ScoExt == <<46, 115, 99, 111>>
ScbExt == <<46, 115, 99, 98>>
TxtExt == <<46, 116, 120, 116>>
PngExt == <<46, 112, 110, 103>>
UveePrefix == <<117, 118, 101, 101, 95>>

\* the components of a path, between its '/'
RECURSIVE Components(_)
Components(p) ==
    IF \A k \in 1..Len(p) : p[k] # 47 THEN <<p>>
    ELSE LET n == CHOOSE k \in 1..Len(p) :
                      p[k] = 47 /\ \A j \in 1..(k - 1) : p[j] # 47
         IN  <<SubSeq(p, 1, n - 1)>> \o Components(SubSeq(p, n + 1, Len(p)))

\* no directory: what a path through a missing directory leads to
NoDir == << << >> >>

\* the working directory of the program: /h
Cwd == << <<104>> >>

\* one component further from a directory: '' and '.' stay, '..' goes up,
\* a name goes down when that directory exists
Enter(dir, c) ==
    IF dir = NoDir THEN NoDir
    ELSE IF c \in {<< >>, <<46>>} THEN dir
    ELSE IF c = <<46, 46>>
         THEN IF dir = << >> THEN << >> ELSE SubSeq(dir, 1, Len(dir) - 1)
    ELSE IF Append(dir, c) \in disk.dirs THEN Append(dir, c) ELSE NoDir

RECURSIVE Walk(_, _)
Walk(dir, cs) == IF cs = << >> THEN dir ELSE Walk(Enter(dir, Head(cs)), Tail(cs))

\* the directory in which the last component of a path is looked up
Parent(p) ==
    Walk(IF p # << >> /\ p[1] = 47 THEN << >> ELSE Cwd,
         SubSeq(Components(p), 1, Len(Components(p)) - 1))

Leaf(p) == Components(p)[Len(Components(p))]

\* what a path names, when its directory exists
Entry(p) == Append(Parent(p), Leaf(p))

\* the path names a regular file
IsFile(p) == Parent(p) # NoDir /\ Entry(p) \in DOMAIN disk.files

\* os.path.exists: the path names a directory or a file
exists(p) == p # << >> /\ (Enter(Parent(p), Leaf(p)) # NoDir \/ IsFile(p))

\* os.mkdir can make the directory: the directory it goes into exists and
\* can be written to, its last component is a name and names nothing yet
CanCreate(p) ==
    /\ Parent(p) # NoDir /\ Parent(p) \notin disk.locked
    /\ Leaf(p) \notin {<< >>, <<46>>, <<46, 46>>}
    /\ Entry(p) \notin disk.dirs /\ ~IsFile(p)

\* the path can be opened for writing: it names a file, or a file of that
\* name can be created
CanWrite(p) == IsFile(p) \/ CanCreate(p)

\* Image.save takes the format from os.path.splitext(img_path)[1]: the
\* '.png' that ends the path is an extension when a character other than
\* '.' stands before it in the last component
KnownExtension(p) == \E k \in 1..(Len(basename(p)) - 4) : basename(p)[k] # 46

\* img.save(img_path) writes the file
Saves(img_path) == KnownExtension(img_path) /\ CanWrite(img_path)

\* what a saved image holds: the signature of a PNG file
Image == <<137, 80, 78, 71>>

\* the file system after img.save(img_path)
Saved(img_path) ==
    [disk EXCEPT !.files = (Entry(img_path) :> Image) @@ @]

\* process_skn: uvee_dir and the img_path of a submesh
uvee_dir(path) ==
    dirname(path) \o <<47>> \o UveePrefix \o Replace(basename(path), SknExt, << >>)

SknImagePath(path, name) ==
    Replace(uvee_dir(path) \o <<47>> \o name \o PngExt, <<92>>, <<47>>)

\* process_so: img_path
SoImagePath(path) ==
    Replace(dirname(path) \o <<47>> \o UveePrefix
                \o Replace(Replace(basename(path), ScoExt, << >>), ScbExt, << >>)
                \o PngExt,
            <<92>>, <<47>>)

\* the directories tried: /h/w with the uvee_f/x of an earlier run, /h/v
\* without, /h/d\e
Directories ==
    { << >>, <<<<104>>>>, <<<<104>>, <<119>>>>,
      <<<<104>>, <<119>>, <<117, 118, 101, 101, 95, 102>>>>,
      <<<<104>>, <<119>>, <<117, 118, 101, 101, 95, 102>>, <<120>>>>,
      <<<<104>>, <<118>>>>, <<<<104>>, <<100, 92, 101>>>> }

\* the paths tried: w/f, v/f, d\e/f, f, q/f with the extensions of the
\* three formats, and w/f.txt
PathStems ==
    { <<119, 47, 102>>, <<118, 47, 102>>, <<100, 92, 101, 47, 102>>, <<102>>,
      <<113, 47, 102>> }

Paths ==
    { st \o e : st \in PathStems, e \in {SknExt, ScoExt, ScbExt} }
        \cup { <<119, 47, 102>> \o TxtExt }

(***************************************************************************)
(* The driver.  argv is the sequence of file paths that the loops of the   *)
(* module body hand to process(), directories already walked.              *)
(***************************************************************************)
driverVars == <<argv, disk, argi, out>>
uvVars == <<tri, uvSco, uvScb>>

\* the decoder objects and locals of one process() call are dropped on return
Reset ==
    /\ file' = << >> /\ lines' = << >> /\ pos' = 0
    /\ major' = 0 /\ minor' = 0 /\ vertex_type' = 0
    /\ index_count' = 0 /\ vertex_count' = 0 /\ face_count' = 0
    /\ i' = -1 /\ index' = 0 /\ face_block_start' = 0
    /\ submeshes' = << >> /\ indices' = << >> /\ vertices' = << >>
    /\ uvs' = << >> /\ material' = << >> /\ sub' = 0

\* a process() without its try: the exception leaves the loop over argv
ExceptAborts ==
    /\ Reset
    /\ pc' = "exit"
    /\ UNCHANGED <<argv, disk, argi, out, uvVars>>

\* process(): an exception of process_skn / process_so is caught and printed,
\* and the driver's loop goes on with the next path
Except ==
    /\ Reset
    /\ out' = Append(out, <<argi, "Failed to read">>)
    /\ argi' = argi + 1
    /\ pc' = "idle"
    /\ UNCHANGED <<argv, disk, uvVars>>

\* process() returns after the images were saved
Return ==
    /\ Reset
    /\ argi' = argi + 1
    /\ pc' = "idle"
    /\ UNCHANGED <<argv, disk, out, uvVars>>

Started ==
    /\ pos' = 0
    /\ UNCHANGED <<driverVars, uvVars, major, minor, vertex_type, index_count,
                   vertex_count, face_count, i, index, face_block_start,
                   submeshes, indices, vertices, uvs, material, sub>>

\* the path process() is called with
Path == argv[argi]

\* process_skn: uvee_dir is made unless it exists
MakeDir ==
    /\ pc = "idle" /\ argi <= Len(argv) /\ EndsWith(Path, SknExt)
    /\ IF exists(uvee_dir(Path)) \/ CanCreate(uvee_dir(Path))
       THEN /\ disk' = [disk EXCEPT !.dirs =
                         IF exists(uvee_dir(Path)) THEN @
                         ELSE @ \cup {Append(Parent(uvee_dir(Path)),
                                             Leaf(uvee_dir(Path)))}]
            /\ pc' = "skn_open"
            /\ UNCHANGED <<argv, argi, out, uvVars, file, lines, pos, major,
                           minor, vertex_type, index_count, vertex_count,
                           face_count, i, index, face_block_start, submeshes,
                           indices, vertices, uvs, material, sub>>
       ELSE Except

\* process_skn: SKN() and open(path, 'rb')
OpenSkn ==
    /\ pc = "skn_open" /\ IsFile(Path)
    /\ file' = disk.files[Entry(Path)]
    /\ lines' = << >>
    /\ pc' = "skn_header"
    /\ Started

\* process(path) of a .scb path
OpenScb ==
    /\ pc = "idle" /\ argi <= Len(argv)
    /\ ~EndsWith(Path, SknExt) /\ EndsWith(Path, ScbExt) /\ IsFile(Path)
    /\ file' = disk.files[Entry(Path)]
    /\ lines' = << >>
    /\ pc' = "scb_header"
    /\ Started

\* process(path) of a .sco path: readlines()
OpenSco ==
    /\ pc = "idle" /\ argi <= Len(argv)
    /\ ~EndsWith(Path, SknExt) /\ EndsWith(Path, ScoExt) /\ IsFile(Path)
    /\ lines' = disk.files[Entry(Path)]
    /\ file' = << >>
    /\ pc' = "sco_magic"
    /\ Started

\* open(path) raises: the path names no file
OpenFails ==
    /\ \/ pc = "skn_open"
       \/ /\ pc = "idle" /\ argi <= Len(argv)
          /\ ~EndsWith(Path, SknExt)
          /\ EndsWith(Path, ScoExt) \/ EndsWith(Path, ScbExt)
    /\ ~IsFile(Path)
    /\ Except

\* process(path) of any other path does nothing
Skip ==
    /\ pc = "idle" /\ argi <= Len(argv)
    /\ ~EndsWith(Path, SknExt) /\ ~EndsWith(Path, ScoExt)
    /\ ~EndsWith(Path, ScbExt)
    /\ Return

\* the for loop over argv is over
Exit ==
    /\ pc = "idle" /\ argi > Len(argv)
    /\ pc' = "exit"
    /\ UNCHANGED <<argv, disk, argi, out, uvVars, file, lines, pos, major,
                   minor, vertex_type, index_count, vertex_count, face_count,
                   i, index, face_block_start, submeshes, indices, vertices,
                   uvs, material, sub>>

(***************************************************************************)
(* SKN.read                                                                *)
(***************************************************************************)
\* the version guard of SKN.read: TRUE when the file is refused
SknUnsupported(maj, min) == maj \notin {0, 2, 4} /\ min # 1

\* a filter that misses the comparison of the first two indices
SknKeepsFaceUnlessLater(face) ==
    ~(face[2] = face[3] \/ face[3] = face[1])

\* the face is kept unless two of its indices are equal
SknKeepsFace(face) ==
    ~(face[1] = face[2] \/ face[2] = face[3] \/ face[3] = face[1])

\* magic and version
SknHeader ==
    /\ pc = "skn_header"
    /\ IF /\ Has(file, 0, 4)
          /\ read_uint32(file, 0) = SknMagic
          /\ Has(file, 4, 4)
          /\ ~SknUnsupported(read_uint16(file, 4), read_uint16(file, 6))
       THEN /\ major' = read_uint16(file, 4)
            /\ minor' = read_uint16(file, 6)
            /\ pos' = 8
            /\ pc' = IF read_uint16(file, 4) = 0
                     THEN "skn_base" ELSE "skn_submesh_count"
            /\ UNCHANGED <<driverVars, uvVars, file, lines, vertex_type,
                           index_count, vertex_count, face_count, i, index,
                           face_block_start, submeshes, indices, vertices,
                           uvs, material, sub>>
       ELSE Except

\* major == 0: the counts, the "Base" submesh, the check of the index count
SknBase ==
    /\ pc = "skn_base"
    /\ IF Has(file, pos, 8) /\ read_uint32(file, pos) % 3 = 0
       THEN /\ index_count' = read_uint32(file, pos)
            /\ vertex_count' = read_uint32(file, pos + 4)
            /\ submeshes' = Append(submeshes,
                   Submesh(<<66, 97, 115, 101>>, 0, read_uint32(file, pos + 4),
                           0, read_uint32(file, pos)))
            /\ face_count' = read_uint32(file, pos) \div 3
            /\ pos' = pos + 8
            /\ i' = 0
            /\ pc' = "skn_face"
            /\ UNCHANGED <<driverVars, uvVars, file, lines, major, minor,
                           vertex_type, index, face_block_start, indices,
                           vertices, uvs, material, sub>>
       ELSE Except

\* SKNSubmesh(): every field None
NoSubmesh ==
    [name |-> << >>, vertex_start |-> -1, vertex_count |-> -1,
     index_start |-> -1, index_count |-> -1]

\* major != 0: the submesh count and the list of empty submeshes
SknSubmeshCount ==
    /\ pc = "skn_submesh_count"
    /\ IF Has(file, pos, 4)
       THEN /\ submeshes' = [k \in 1..read_uint32(file, pos) |-> NoSubmesh]
            /\ pos' = pos + 4
            /\ i' = 0
            /\ pc' = "skn_submesh"
            /\ UNCHANGED <<driverVars, uvVars, file, lines, major, minor,
                           vertex_type, index_count, vertex_count, face_count,
                           index, face_block_start, indices, vertices, uvs,
                           material, sub>>
       ELSE Except

\* one submesh of the table: its name and its four ranges
SknSubmesh ==
    /\ pc = "skn_submesh" /\ i < Len(submeshes)
    /\ IF IsAscii(read_bytes(file, pos, 64)) /\ Has(file, pos + 64, 16)
       THEN /\ submeshes' = [submeshes EXCEPT ![i + 1] =
                   Submesh(read_padded_ascii(file, pos, 64),
                           read_uint32(file, pos + 64),
                           read_uint32(file, pos + 68),
                           read_uint32(file, pos + 72),
                           read_uint32(file, pos + 76))]
            /\ pos' = pos + 80
            /\ i' = i + 1
            /\ UNCHANGED <<driverVars, uvVars, pc, file, lines, major, minor,
                           vertex_type, index_count, vertex_count, face_count,
                           index, face_block_start, indices, vertices, uvs,
                           material, sub>>
       ELSE Except

\* after the table: flags, the counts, the major-4 fields, the check of the
\* index count
SknInfo ==
    /\ pc = "skn_submesh" /\ i = Len(submeshes)
    /\ LET p1 == IF major = 4 THEN pad(pos, 4) ELSE pos
           p2 == IF major = 4 THEN pad(p1 + 8, 4) ELSE p1 + 8
           p3 == IF major = 4 THEN pad(pad(p2 + 4, 24), 16) ELSE p2
       IN  IF /\ Has(file, p1, 8)
              /\ major = 4 => Has(file, p2, 4)
              /\ read_uint32(file, p1) % 3 = 0
           THEN /\ index_count' = read_uint32(file, p1)
                /\ vertex_count' = read_uint32(file, p1 + 4)
                /\ vertex_type' = IF major = 4 THEN read_uint32(file, p2) ELSE 0
                /\ face_count' = read_uint32(file, p1) \div 3
                /\ pos' = p3
                /\ i' = 0
                /\ pc' = "skn_face"
                /\ UNCHANGED <<driverVars, uvVars, file, lines, major, minor,
                               index, face_block_start, submeshes, indices,
                               vertices, uvs, material, sub>>
           ELSE Except

\* one face: 3 uint16, kept unless an index repeats
SknFace ==
    /\ pc = "skn_face" /\ i < face_count
    /\ IF Has(file, pos, 6)
       THEN LET face == <<read_uint16(file, pos), read_uint16(file, pos + 2),
                          read_uint16(file, pos + 4)>>
            IN  /\ indices' = IF SknKeepsFace(face)
                              THEN indices \o face ELSE indices
                /\ pos' = pos + 6
                /\ i' = i + 1
                /\ UNCHANGED <<driverVars, uvVars, pc, file, lines, major,
                               minor, vertex_type, index_count, vertex_count,
                               face_count, index, face_block_start, submeshes,
                               vertices, uvs, material, sub>>
       ELSE Except

\* SKNVertex(): every field None
NoVertex == [position |-> << >>, uv |-> << >>]

\* the faces are read: the list of empty vertices
SknFacesRead ==
    /\ pc = "skn_face" /\ i = face_count
    /\ vertices' = [k \in 1..vertex_count |-> NoVertex]
    /\ i' = 0
    /\ pc' = "skn_vertex"
    /\ UNCHANGED <<driverVars, uvVars, file, lines, pos, major, minor,
                   vertex_type, index_count, vertex_count, face_count, index,
                   face_block_start, submeshes, indices, uvs, material, sub>>

\* bytes of one vertex after its uv: the color and the tangent are padded
SknVertexTail(vt) ==
    (IF vt >= 1 THEN 4 ELSE 0) + (IF vt >= 1 /\ vt = 2 THEN 16 ELSE 0)

\* one vertex: position, influences, weights, padded normal, uv, padded tail
SknVertex ==
    /\ pc = "skn_vertex" /\ i < vertex_count
    /\ IF Has(file, pos, 12) /\ Has(file, pos + 16, 16) /\ Has(file, pos + 44, 8)
       THEN /\ vertices' = [vertices EXCEPT ![i + 1] =
                   [position |-> read_vec3(file, pos),
                    uv |-> read_vec2(file, pad(pos + 32, 12))]]
            /\ pos' = pad(pos + 52, SknVertexTail(vertex_type))
            /\ i' = i + 1
            /\ UNCHANGED <<driverVars, uvVars, pc, file, lines, major, minor,
                           vertex_type, index_count, vertex_count, face_count,
                           index, face_block_start, submeshes, indices, uvs,
                           material, sub>>
       ELSE Except

\* SKN.read returns: process_skn starts its loop over the submeshes
SknRead ==
    /\ pc = "skn_vertex" /\ i = vertex_count
    /\ sub' = 1
    /\ pc' = "skn_project"
    /\ UNCHANGED <<driverVars, uvVars, file, lines, pos, major, minor,
                   vertex_type, index_count, vertex_count, face_count, i,
                   index, face_block_start, submeshes, indices, vertices, uvs,
                   material>>

(***************************************************************************)
(* process_skn: one image per submesh                                      *)
(***************************************************************************)
SeqMin(s) == CHOOSE m \in {s[k] : k \in 1..Len(s)} :
                 \A k \in 1..Len(s) : m <= s[k]

\* the slices of one submesh
SubmeshVertices(m) ==
    Slice(vertices, m.vertex_start, m.vertex_start + m.vertex_count)

SubmeshIndices(m) ==
    Slice(indices, m.index_start, m.index_start + m.index_count)

\* the indices of the slice after min_index is subtracted
Renormalized(ix) == [k \in 1..Len(ix) |-> ix[k] - SeqMin(ix)]

\* the lookups vertices[indices[i*3 + c]] of the drawing loop
Lookups(ix) == SubSeq(Renormalized(ix), 1, 3 * (Len(ix) \div 3))

\* min() of a non-empty slice, and every lookup inside the sliced vertices
Drawable(m) ==
    /\ SubmeshIndices(m) # << >>
    /\ \A k \in 1..Len(Lookups(SubmeshIndices(m))) :
           Lookups(SubmeshIndices(m))[k] < Len(SubmeshVertices(m))

ProjectSubmesh ==
    /\ pc = "skn_project" /\ sub <= Len(submeshes)
    /\ IF /\ Drawable(submeshes[sub])
          /\ Saves(SknImagePath(Path, submeshes[sub].name))
       THEN /\ disk' = Saved(SknImagePath(Path, submeshes[sub].name))
            /\ out' = Append(out, <<argi, "Done">>)
            /\ sub' = sub + 1
            /\ UNCHANGED <<argv, argi, uvVars, pc, file, lines, pos, major,
                           minor, vertex_type, index_count, vertex_count,
                           face_count, i, index, face_block_start, submeshes,
                           indices, vertices, uvs, material>>
       ELSE Except

\* process_skn returns
SknDone ==
    /\ pc = "skn_project" /\ sub > Len(submeshes)
    /\ Return

(***************************************************************************)
(* SO.read_scb                                                             *)
(***************************************************************************)
\* the version guard of SO.read_scb: TRUE when the file is refused
ScbUnsupported(maj, min) == maj \notin {3, 2} /\ min # 1

\* the face is skipped when two of its indices are equal
ScbSkipsFace(face) ==
    face[1] = face[2] \/ face[2] = face[3] \/ face[3] = face[1]

\* the 3 indices of the face record read at p
scb_face(f, p) ==
    <<read_uint32(f, p), read_uint32(f, p + 4), read_uint32(f, p + 8)>>

\* a reassembly that takes the 6 floats as u v, u v, u v
scb_face_uvs_interleaved(f, p) ==
    << <<read_float(f, p), read_float(f, p + 4)>>,
       <<read_float(f, p + 8), read_float(f, p + 12)>>,
       <<read_float(f, p + 16), read_float(f, p + 20)>> >>

\* the 3 UVs of the 6 floats at p: u u u, v v v
scb_face_uvs(f, p) ==
    << <<read_float(f, p), read_float(f, p + 12)>>,
       <<read_float(f, p + 4), read_float(f, p + 16)>>,
       <<read_float(f, p + 8), read_float(f, p + 20)>> >>

\* magic and version
ScbHeader ==
    /\ pc = "scb_header"
    /\ IF /\ IsAscii(read_bytes(file, 0, 8))
          /\ read_bytes(file, 0, 8) = ScbMagic
          /\ Has(file, 8, 4)
          /\ ~ScbUnsupported(read_uint16(file, 8), read_uint16(file, 10))
       THEN /\ major' = read_uint16(file, 8)
            /\ minor' = read_uint16(file, 10)
            /\ pos' = 12
            /\ pc' = "scb_info"
            /\ UNCHANGED <<driverVars, uvVars, file, lines, vertex_type,
                           index_count, vertex_count, face_count, i, index,
                           face_block_start, submeshes, indices, vertices,
                           uvs, material, sub>>
       ELSE Except

\* read_vec3(count) reads one vector unless count > 1
Vec3Bytes(count) == IF count > 1 THEN 12 * count ELSE 12

\* the counts, the bounding box, the vertex type, the positions, the colors
\* and the central point
ScbInfo ==
    /\ pc = "scb_info"
    /\ LET p1 == pad(pos, 128)
           p2 == pad(p1 + 12, 24)
           typed == major = 3 /\ minor = 2
           p3 == IF typed THEN p2 + 4 ELSE p2
       IN  IF /\ Has(file, p1, 12)
              /\ typed => Has(file, p2, 4)
              /\ Has(file, p3, Vec3Bytes(read_uint32(file, p1)))
           THEN LET vc == read_uint32(file, p1)
                    vt == IF typed THEN read_uint32(file, p2) ELSE 0
                    p4 == p3 + Vec3Bytes(vc)
                    p5 == IF vt = 1 THEN pad(p4, 4 * vc) ELSE p4
                IN  IF Has(file, p5, 12)
                    THEN /\ vertex_count' = vc
                         /\ face_count' = read_uint32(file, p1 + 4)
                         /\ vertex_type' = vt
                         /\ vertices' =
                                IF vc > 1
                                THEN [k \in 1..vc |-> read_vec3(file, p3 + 12 * (k - 1))]
                                ELSE read_vec3(file, p3)
                         /\ pos' = p5 + 12
                         /\ face_block_start' = p5 + 12
                         /\ i' = 0
                         /\ pc' = "scb_face"
                         /\ UNCHANGED <<driverVars, uvVars, file, lines, major,
                                        minor, index_count, index, submeshes,
                                        indices, uvs, material, sub>>
                    ELSE Except
           ELSE Except

\* one iteration of the loop over the faces
ScbFace ==
    /\ pc = "scb_face" /\ i < face_count
    /\ IF ~Has(file, pos, 12)
       THEN Except
       ELSE IF ScbSkipsFace(scb_face(file, pos))
       THEN /\ pos' = pos + 12
            /\ i' = i + 1
            /\ UNCHANGED <<driverVars, uvVars, pc, file, lines, major, minor,
                           vertex_type, index_count, vertex_count, face_count,
                           index, face_block_start, submeshes, indices,
                           vertices, uvs, material, sub>>
       ELSE IF IsAscii(read_bytes(file, pos + 12, 64)) /\ Has(file, pos + 76, 24)
       THEN /\ indices' = indices \o scb_face(file, pos)
            /\ material' = read_padded_ascii(file, pos + 12, 64)
            /\ uvs' = uvs \o scb_face_uvs(file, pos + 76)
            /\ pos' = pos + 100
            /\ i' = i + 1
            /\ UNCHANGED <<driverVars, uvVars, pc, file, lines, major, minor,
                           vertex_type, index_count, vertex_count, face_count,
                           index, face_block_start, submeshes, vertices, sub>>
       ELSE Except

\* SO.read_scb returns
ScbRead ==
    /\ pc = "scb_face" /\ i = face_count
    /\ pc' = "so_project"
    /\ UNCHANGED <<driverVars, uvVars, file, lines, pos, major, minor,
                   vertex_type, index_count, vertex_count, face_count, i,
                   index, face_block_start, submeshes, indices, vertices, uvs,
                   material, sub>>

(***************************************************************************)
(* SO.read_sco                                                             *)
(***************************************************************************)
\* str.split(): the words of a line
IsWord(piece) == piece # " "

split(line) == SelectSeq(line, IsWord)

\* lines[k].split(), k 0-based
Line(k) == split(lines[k + 1])

\* token k of a line, 0-based
Tok(inp, k) == inp[k + 1]

\* Vector(float(inp[a]), float(inp[a+1]), float(inp[a+2])) does not raise
Floats3(inp, a) ==
    /\ Len(inp) >= a + 3
    /\ IsFloat(Tok(inp, a)) /\ IsFloat(Tok(inp, a + 1)) /\ IsFloat(Tok(inp, a + 2))

\* the lines lines[index+1 .. index+count] of a block exist
BlockLines(count) == index + count < Len(lines)

\* the 3 indices of a Faces line
sco_face(inp2) == <<int(Tok(inp2, 1)), int(Tok(inp2, 2)), int(Tok(inp2, 3))>>

ScoSkipsFace(face) ==
    face[1] = face[2] \/ face[2] = face[3] \/ face[3] = face[1]

\* the 3 UVs of a Faces line: u v, u v, u v
sco_face_uvs(inp2) ==
    << <<float(Tok(inp2, 5)), float(Tok(inp2, 6))>>,
       <<float(Tok(inp2, 7)), float(Tok(inp2, 8))>>,
       <<float(Tok(inp2, 9)), float(Tok(inp2, 10))>> >>

\* a text material name is kept as its token
sco_material(inp2) == <<Tok(inp2, 4)>>

\* the 3 indices of a Faces line are read without raising
ScoFaceParses(inp2) ==
    /\ Len(inp2) >= 4
    /\ IsInt(Tok(inp2, 1)) /\ IsInt(Tok(inp2, 2)) /\ IsInt(Tok(inp2, 3))

ScoFaceKept(inp2) == ~ScoSkipsFace(sco_face(inp2))

\* one iteration of the Faces loop does not raise
ScoFaceReads(inp2) ==
    /\ ScoFaceParses(inp2)
    /\ ScoFaceKept(inp2) =>
          /\ Len(inp2) >= 11
          /\ \A k \in 5..10 : IsFloat(Tok(inp2, k))

\* the first line is the signature
ScoMagic ==
    /\ pc = "sco_magic"
    /\ IF lines # << >> /\ lines[1] = <<"[ObjectBegin]">>
       THEN /\ index' = 1
            /\ pc' = "sco_scan"
            /\ UNCHANGED <<driverVars, uvVars, file, lines, pos, major, minor,
                           vertex_type, index_count, vertex_count, face_count,
                           i, face_block_start, submeshes, indices, vertices,
                           uvs, material, sub>>
       ELSE Except

\* the value of the loop variable after `for i in range(index+1, index+1+n)`:
\* an empty range leaves it as it was
AfterFor(n) == IF n > 0 THEN index + n ELSE i

\* `index = i+1` after a block of n lines; i may not be bound
ScoBlockEnds(n) ==
    /\ AfterFor(n) # -1
    /\ i' = AfterFor(n)
    /\ index' = AfterFor(n) + 1

scoLocals == <<driverVars, uvVars, pc, file, lines, pos, major, minor,
               vertex_type, index_count, face_block_start, submeshes, sub>>

\* one iteration of the main loop of read_sco
ScoScan ==
    /\ pc = "sco_scan" /\ index < Len(lines)
    /\ LET inp == Line(index) IN
       IF Len(inp) = 0
       THEN /\ index' = index + 1
            /\ UNCHANGED <<scoLocals, vertex_count, face_count, i, indices,
                           vertices, uvs, material>>
       ELSE IF Tok(inp, 0) \in {"CentralPoint=", "PivotPoint="}
       THEN IF Floats3(inp, 1)
            THEN /\ index' = index + 1
                 /\ UNCHANGED <<scoLocals, vertex_count, face_count, i,
                                indices, vertices, uvs, material>>
            ELSE Except
       ELSE IF Tok(inp, 0) = "Verts="
       THEN IF /\ Len(inp) >= 2 /\ IsInt(Tok(inp, 1))
               /\ BlockLines(int(Tok(inp, 1)))
               /\ \A k \in 1..int(Tok(inp, 1)) : Floats3(Line(index + k), 0)
               /\ AfterFor(int(Tok(inp, 1))) # -1
            THEN /\ vertex_count' = int(Tok(inp, 1))
                 /\ vertices' = vertices \o
                        [k \in 1..int(Tok(inp, 1)) |->
                            <<float(Tok(Line(index + k), 0)),
                              float(Tok(Line(index + k), 1)),
                              float(Tok(Line(index + k), 2))>>]
                 /\ ScoBlockEnds(int(Tok(inp, 1)))
                 /\ UNCHANGED <<scoLocals, face_count, indices, uvs, material>>
            ELSE Except
       ELSE IF Tok(inp, 0) = "Faces="
       THEN IF /\ Len(inp) >= 2 /\ IsInt(Tok(inp, 1))
               /\ BlockLines(int(Tok(inp, 1)))
               /\ \A k \in 1..int(Tok(inp, 1)) : ScoFaceReads(Line(index + k))
               /\ AfterFor(int(Tok(inp, 1))) # -1
            THEN LET block == [k \in 1..int(Tok(inp, 1)) |-> Line(index + k)]
                     kept == SelectSeq(block, ScoFaceKept)
                 IN  /\ face_count' = int(Tok(inp, 1))
                     /\ indices' = indices \o
                            Concat([k \in 1..Len(kept) |-> sco_face(kept[k])])
                     /\ uvs' = uvs \o
                            Concat([k \in 1..Len(kept) |-> sco_face_uvs(kept[k])])
                     /\ material' = IF kept = << >> THEN material
                                    ELSE sco_material(kept[Len(kept)])
                     /\ ScoBlockEnds(int(Tok(inp, 1)))
                     /\ UNCHANGED <<scoLocals, vertex_count, vertices>>
            ELSE Except
       ELSE /\ index' = index + 1
            /\ UNCHANGED <<scoLocals, vertex_count, face_count, i, indices,
                           vertices, uvs, material>>

\* SO.read_sco returns
ScoRead ==
    /\ pc = "sco_scan" /\ index >= Len(lines)
    /\ pc' = "so_project"
    /\ UNCHANGED <<driverVars, uvVars, file, lines, pos, major, minor,
                   vertex_type, index_count, vertex_count, face_count, i,
                   index, face_block_start, submeshes, indices, vertices, uvs,
                   material, sub>>

(***************************************************************************)
(* process_so: every lookup uvs[i*3 + c], i < len(uvs) // 3, is in range;  *)
(* the image is saved                                                      *)
(***************************************************************************)
ProjectSo ==
    /\ pc = "so_project"
    /\ IF /\ \A k \in 0..(3 * (Len(uvs) \div 3) - 1) : k < Len(uvs)
          /\ Saves(SoImagePath(Path))
       THEN /\ Reset
            /\ out' = Append(out, <<argi, "Done">>)
            /\ argi' = argi + 1
            /\ pc' = "idle"
            /\ disk' = Saved(SoImagePath(Path))
            /\ UNCHANGED <<argv, uvVars>>
       ELSE Except

(***************************************************************************)
(* One logical triangle decoded from its text line and from its binary     *)
(* face record.                                                            *)
(***************************************************************************)
\* the Faces line of the triangle: u v per corner
TriLine(t) ==
    <<"3", "0", "1", "2", "mat">> \o [k \in 1..6 |-> FloatToken(t[k])]

\* the face record of the triangle: all U, then all V
TriRecord(t) ==
    ScbFaceBytes([face |-> <<0, 1, 2>>, material |-> <<109, 97, 116>>,
                  uv |-> <<t[1], t[3], t[5], t[2], t[4], t[6]>>])

UvReadSco ==
    /\ pc = "uv" /\ uvSco = << >>
    /\ ScoFaceReads(TriLine(tri)) /\ ScoFaceKept(TriLine(tri))
    /\ uvSco' = sco_face_uvs(TriLine(tri))
    /\ UNCHANGED <<driverVars, pc, file, lines, pos, major, minor, vertex_type,
                   index_count, vertex_count, face_count, i, index,
                   face_block_start, submeshes, indices, vertices, uvs,
                   material, sub, tri, uvScb>>

UvReadScb ==
    /\ pc = "uv" /\ uvScb = << >>
    /\ ~ScbSkipsFace(scb_face(TriRecord(tri), 0))
    /\ Has(TriRecord(tri), 76, 24)
    /\ uvScb' = scb_face_uvs(TriRecord(tri), 76)
    /\ UNCHANGED <<driverVars, pc, file, lines, pos, major, minor, vertex_type,
                   index_count, vertex_count, face_count, i, index,
                   face_block_start, submeshes, indices, vertices, uvs,
                   material, sub, tri, uvSco>>

(***************************************************************************)
(* Specifications                                                          *)
(***************************************************************************)
Fresh ==
    /\ file = << >> /\ lines = << >> /\ pos = 0
    /\ major = 0 /\ minor = 0 /\ vertex_type = 0
    /\ index_count = 0 /\ vertex_count = 0 /\ face_count = 0
    /\ i = -1 /\ index = 0 /\ face_block_start = 0
    /\ submeshes = << >> /\ indices = << >> /\ vertices = << >>
    /\ uvs = << >> /\ material = << >> /\ sub = 0

Decode ==
    \/ SknHeader \/ SknBase \/ SknSubmeshCount \/ SknSubmesh \/ SknInfo
    \/ SknFace \/ SknFacesRead \/ SknVertex \/ SknRead
    \/ ProjectSubmesh \/ SknDone
    \/ ScbHeader \/ ScbInfo \/ ScbFace \/ ScbRead
    \/ ScoMagic \/ ScoScan \/ ScoRead
    \/ ProjectSo

\* the files of a batch: of each format, files that decode and project,
\* files whose projection raises and files whose decoding raises or does
\* not end
SknBatchCorpus ==
    { SknBytes([major |-> 0, minor |-> 1, subs |-> << >>, ic |-> 3, nv |-> 3,
                vt |-> 0, faces |-> <<f>>, cut |-> 0]) :
          f \in {<<0, 1, 2>>, <<1, 1, 2>>} }
    \cup
    { SknBytes([major |-> 2, minor |-> 1,
                subs |-> <<Submesh(n, 0, 3, 0, 3)>>, ic |-> 3, nv |-> 3,
                vt |-> 0, faces |-> << <<0, 1, 2>> >>, cut |-> c]) :
          n \in {<<97>>, <<120, 47, 121>>}, c \in {0, 20} }

ScbBatchCorpus ==
    { ScbBytes([major |-> 3, minor |-> 1, nv |-> 3, vt |-> 0, faces |-> <<r>>,
                cut |-> c]) :
          r \in ScbFaceSet, c \in {0, 88} }

ScoBatchCorpus ==
    { ScoLines(bs) : bs \in SeqUpTo(ScoBlockSet, 1) }
        \cup { ScoLines(<< << <<"Verts=", "1">>, <<"0", "0.5", "1">> >>,
                           << <<"Verts=", "0">> >> >>),
               << >> }

\* the files of the paths of a batch: v/g.png.skn, v/g.scb, f.sco
SknBatchFiles ==
    { SknBytes([major |-> 0, minor |-> 1, subs |-> << >>, ic |-> 3, nv |-> 3,
                vt |-> 0, faces |-> <<f>>, cut |-> 0]) :
          f \in {<<0, 1, 2>>, <<1, 1, 2>>} }
    \cup
    { SknBytes([major |-> 2, minor |-> 1,
                subs |-> <<Submesh(<<97>>, 0, 3, 0, 3)>>, ic |-> 3, nv |-> 3,
                vt |-> 0, faces |-> << <<0, 1, 2>> >>, cut |-> 20]) }

ScbBatchFiles ==
    { ScbBytes([major |-> 3, minor |-> 1, nv |-> 3, vt |-> 0,
                faces |-> << [face |-> <<0, 1, 2>>, material |-> <<109>>,
                              uv |-> <<0, 0, 0, 0, 0, 0>>] >>,
                cut |-> c]) : c \in {0, 88} }

ScoBatchFiles ==
    { ScoLines(<< << <<"Faces=", "1">>,
                     <<"3", "3", "4", "5", "m2", "1", "0", "0", "1", "0", "0">> >> >>),
      ScoLines(<< << <<"Verts=", "1">>, <<"0", "0.5", "1">> >>,
                  << <<"Verts=", "0">> >> >>),
      ScoText(<<"[Object]">>, << >>) }

\* the contents tried for the file of a path: the whole corpus of its
\* format under w/, the files of a batch elsewhere; a few files in a batch
Contents(p, batch) ==
    IF Cwd \o SubSeq(Components(p), 1, Len(Components(p)) - 1) \notin Directories
    THEN {}
    ELSE IF EndsWith(p, SknExt)
         THEN IF batch THEN SknBatchFiles
              ELSE IF dirname(p) = <<119>> THEN SknCorpus ELSE SknBatchCorpus
    ELSE IF EndsWith(p, ScbExt)
         THEN IF batch THEN ScbBatchFiles
              ELSE IF dirname(p) = <<119>> THEN ScbCorpus ELSE ScbBatchCorpus
    ELSE IF EndsWith(p, ScoExt)
         THEN IF batch THEN ScoBatchFiles
              ELSE IF dirname(p) = <<119>> THEN ScoCorpus ELSE ScoBatchCorpus
    ELSE {<< >>}

\* no file
NoFiles == [p \in {} |-> << >>]

\* the files a set of paths may name: each path names no file, or a file
\* of one of its contents
RECURSIVE Stored(_, _)
Stored(ps, batch) ==
    IF ps = {} THEN {NoFiles}
    ELSE LET p == CHOOSE q \in ps : TRUE
             rest == Stored(ps \ {p}, batch)
         IN  rest \cup { (Cwd \o Components(p) :> c) @@ f :
                             f \in rest, c \in Contents(p, batch) }

\* the file systems tried for the paths of argv: the directories, / open
\* or closed to new entries, and the files of the paths
FileSystems(paths, batch) ==
    { [dirs |-> Directories, locked |-> l, files |-> f] :
          l \in { {}, {<< >>} },
          f \in Stored({paths[k] : k \in 1..Len(paths)}, batch) }

\* one path and its file
Init ==
    /\ argv \in SeqUpTo(Paths, 1)
    /\ disk \in FileSystems(argv, FALSE)
    /\ argi = 1 /\ out = << >> /\ pc = "idle"
    /\ Fresh
    /\ tri = << >> /\ uvSco = << >> /\ uvScb = << >>

Next ==
    \/ MakeDir \/ OpenSkn \/ OpenScb \/ OpenSco
    \/ OpenFails \/ Skip \/ Exit
    \/ Decode

Spec == Init /\ [][Next]_vars

\* the paths of a batch: v/g.png.skn, v/g.scb, f.sco, w/f.txt
BatchPaths ==
    { <<118, 47, 103>> \o PngExt \o SknExt, <<118, 47, 103>> \o ScbExt,
      <<102>> \o ScoExt, <<119, 47, 102>> \o TxtExt }

\* a batch of paths
InitBatch ==
    /\ argv \in SeqUpTo(BatchPaths, MaxPaths)
    /\ disk \in FileSystems(argv, TRUE)
    /\ argi = 1 /\ out = << >> /\ pc = "idle"
    /\ Fresh
    /\ tri = << >> /\ uvSco = << >> /\ uvScb = << >>

SpecBatch == InitBatch /\ [][Next]_vars

\* one logical triangle
InitUV ==
    /\ tri \in [1..6 -> FloatVals]
    /\ uvSco = << >> /\ uvScb = << >>
    /\ argv = << >> /\ argi = 1 /\ out = << >> /\ pc = "uv"
    /\ disk \in FileSystems(argv, FALSE)
    /\ Fresh

NextUV == UvReadSco \/ UvReadScb

SpecUV == InitUV /\ [][NextUV]_vars

(***************************************************************************)
(* Properties                                                              *)
(***************************************************************************)
Processing(ext) == argi <= Len(argv) /\ EndsWith(argv[argi], ext)

\* SKN.read has returned
SknReadReturned == pc = "skn_project"

\* SO.read_scb, SO.read_sco has returned
ScbReadReturned == pc = "so_project" /\ Processing(ScbExt)
ScoReadReturned == pc = "so_project" /\ Processing(ScoExt)

Distinct3(t) == t[1] # t[2] /\ t[2] # t[3] /\ t[3] # t[1]

\* face k (0-based) of a flat index list
Triple(s, k) == <<s[3 * k + 1], s[3 * k + 2], s[3 * k + 3]>>

\* C1: SKN.read returns for no file whose major version is outside {0,2,4},
\* SO.read_scb for no file whose major version is outside {2,3}, whatever
\* the minor version.
C1_VersionGuard ==
    /\ SknReadReturned => major \in {0, 2, 4}
    /\ ScbReadReturned => major \in {2, 3}

\* where the faces of the .skn file begin, from its decoded header
SknFacesAt ==
    8 + (IF major = 0 THEN 8
         ELSE 4 + 80 * Len(submeshes) + 8 + (IF major = 4 THEN 52 ELSE 0))

\* face k (0-based) as the .skn file holds it
SknFileFace(k) ==
    <<read_uint16(file, SknFacesAt + 6 * k),
      read_uint16(file, SknFacesAt + 6 * k + 2),
      read_uint16(file, SknFacesAt + 6 * k + 4)>>

\* face record k (0-based) of the .scb file
ScbFileFace(k) == scb_face(file, face_block_start + 100 * k)

\* the Faces lines of a .sco file with one Faces block, declared at line h
ScoOneBlock(h) ==
    /\ h \in 1..Len(lines)
    /\ \A k \in 1..Len(lines) :
           (split(lines[k]) # << >> /\ split(lines[k])[1] = "Faces=") <=> k = h

\* C2: in every decoder the retained index list has a length that is a
\* multiple of 3 and each retained face has three pairwise distinct indices;
\* a face with a repeated index contributes none of its indices: SKN.read
\* retains 3 indices per face of the file without a repeated index, and a
\* 2-face .scb or .sco input whose second face repeats an index yields
\* exactly 3 indices.
C2_DegenerateFilter ==
    /\ Len(indices) % 3 = 0
    /\ \A k \in 0..(Len(indices) \div 3 - 1) : Distinct3(Triple(indices, k))
    /\ SknReadReturned =>
          Len(indices) =
              3 * Cardinality({k \in 0..(face_count - 1) : Distinct3(SknFileFace(k))})
    /\ (/\ ScbReadReturned /\ face_count = 2
        /\ Distinct3(ScbFileFace(0)) /\ ~Distinct3(ScbFileFace(1)))
          => Len(indices) = 3
    /\ \A h \in 1..Len(lines) :
          (/\ ScoReadReturned /\ ScoOneBlock(h)
           /\ split(lines[h]) = <<"Faces=", "2">>
           /\ Distinct3(sco_face(split(lines[h + 1])))
           /\ ~Distinct3(sco_face(split(lines[h + 2]))))
             => Len(indices) = 3

\* C2 witness: a 2-face .skn file was decoded, its second face was dropped
\* and 3 indices are retained
C2_Witness ==
    /\ SknReadReturned /\ face_count = 2 /\ Len(indices) = 3
    /\ Distinct3(SknFileFace(0)) /\ ~Distinct3(SknFileFace(1))

\* C3: while the face records are read, the cursor stands 100 bytes further
\* per record read, whether the record was retained or dropped.
C3_FaceRecordStride ==
    pc = "scb_face" => pos = face_block_start + 100 * i

\* C4: for the submesh process_skn is about to draw, min() has an index to
\* work on and every renormalized index looked up is inside the sliced
\* vertex array.
C4_ProjectionInBounds ==
    (pc = "skn_project" /\ sub <= Len(submeshes)) =>
        LET m == submeshes[sub]
            vs == Slice(vertices, m.vertex_start, m.vertex_start + m.vertex_count)
            ix == Slice(indices, m.index_start, m.index_start + m.index_count)
        IN  /\ ix # << >>
            /\ \A k \in 1..(3 * (Len(ix) \div 3)) :
                   /\ 0 <= ix[k] - SeqMin(ix)
                   /\ ix[k] - SeqMin(ix) < Len(vs)
                   /\ ix[k] - SeqMin(ix) < m.vertex_count

\* C5: after SKN.read returns, every submesh lies inside the decoded vertex
\* and index arrays and has an index count that is a multiple of 3, and the
\* "Base" submesh of a major-0 file spans exactly both arrays.
C5_SubmeshRanges ==
    SknReadReturned =>
        /\ \A s \in 1..Len(submeshes) :
               /\ submeshes[s].vertex_start + submeshes[s].vertex_count
                      <= Len(vertices)
               /\ submeshes[s].index_start + submeshes[s].index_count
                      <= Len(indices)
               /\ submeshes[s].index_count % 3 = 0
        /\ major = 0 =>
               /\ Len(submeshes) = 1
               /\ submeshes[1].vertex_start = 0
               /\ submeshes[1].vertex_count = Len(vertices)
               /\ submeshes[1].index_start = 0
               /\ submeshes[1].index_count = Len(indices)

\* C6: SKN.read and SO.read_scb return only when every field and pad they
\* asked for was in the file: the cursor never stands beyond the end.
C6_TruncatedInput ==
    (SknReadReturned \/ ScbReadReturned) => pos <= Len(file)

\* the three UVs of a logical triangle in corner order
Corners(t) == << <<t[1], t[2]>>, <<t[3], t[4]>>, <<t[5], t[6]>> >>

\* C7: for one logical triangle, read_sco on its interleaved line and
\* read_scb on its all-U-then-all-V record both yield (u0,v0), (u1,v1),
\* (u2,v2).
C7_UVLayout ==
    /\ uvSco # << >> => uvSco = Corners(tri)
    /\ uvScb # << >> => uvScb = Corners(tri)
    /\ (uvSco # << >> /\ uvScb # << >>) => uvSco = uvScb

\* C7 witness: both decoders have read a triangle whose layouts differ
C7_Witness ==
    /\ uvSco # << >> /\ uvScb # << >>
    /\ tri[2] # tri[3] /\ tri[1] # tri[2] /\ tri[4] # tri[5]

\* C8: the run ends only after the last path; the driver goes through the
\* paths one by one, in order; whatever ends the processing of a path, an
\* error included, moves the driver to the next path and prints only about
\* that path.
C8_BatchIsolation ==
    /\ [](pc = "exit" => argi = Len(argv) + 1)
    /\ [][/\ argi' = argi \/ (argi' = argi + 1 /\ pc' = "idle")
          /\ (pc # "idle" /\ pc' = "idle") => argi' = argi + 1
          /\ \A k \in (Len(out) + 1)..Len(out') : out'[k][1] = argi]_vars

\* C8 witness: the run has ended, the first path failed and a later path
\* was decoded and projected
C8_Witness ==
    /\ pc = "exit" /\ Len(out) >= 2
    /\ out[1] = <<1, "Failed to read">>
    /\ out[Len(out)] = <<Len(argv), "Done">>
    /\ Len(argv) >= 2

C10_ScanAdvances ==
    [][(pc = "sco_scan" /\ pc' = "sco_scan") => index' > index]_vars

============================================================================
